---- MODULE Spec2Model ----
(***************************************************************************)
(* Model of scripts/select-cmake-tests.py: CMakeTestSelector and main().    *)
(*                                                                         *)
(* Text is a sequence of one-character strings, so that the regular         *)
(* expressions of analyze_file are matched character by character.  A path  *)
(* is a sequence of tokens: single characters, the separators "/" and "\",  *)
(* and a final file-name suffix token.                                      *)
(***************************************************************************)
EXTENDS Integers, Sequences, FiniteSets, TLC

VARIABLES
    cmake_dir,        \* /tmp/cmake-tests/CMake exists
    tests_dir,        \* /tmp/cmake-tests/CMake/Tests exists
    tests_files,      \* files of the upstream Tests tree, in directory order
    out_dir,          \* test/datasets/cmake-official: file name -> source path
    readme,           \* README.md has been written
    pc,               \* position of main()
    run,              \* number of the current run of the script
    exit_code,        \* process exit status of the current run, -1 while running
    raised,           \* uncaught exception of the current run
    steps,            \* steps of main() the current run has entered
    written,          \* names written to out_dir by the current run
    clone_completed,  \* some run finished both subprocesses of clone_cmake_repo
    analyzed,         \* result of find_representative_files
    count,            \* cap passed to select_diverse_set
    selected,         \* select_diverse_set: the local list selected
    cat,              \* select_diverse_set: index of the next category
    candidates,       \* select_diverse_set: candidates of the last category
    taken,            \* select_diverse_set: files appended for the last category
    result            \* value returned by select_diverse_set

vars == <<cmake_dir, tests_dir, tests_files, out_dir, readme, pc, run, exit_code,
          raised, steps, written, clone_completed, analyzed, count, selected, cat,
          candidates, taken, result>>

fs_vars == <<cmake_dir, tests_dir, tests_files, out_dir, readme>>

select_vars == <<selected, cat, candidates, taken, result>>

----------------------------------------------------------------------------
(* Bounds of the model *)

\* most files in the upstream Tests tree (main pipeline)
MaxFiles == 2

\* most runs of the script in one behaviour
MaxRuns == 2

\* most files of the one bulk class of an analyzed list (selection inputs)
MaxBulk == 50

\* most files of each other pure class of an analyzed list
MaxOther == 1

\* most files on each bound shared by two categories
MaxBoundary == 1

\* caps 0..MaxCap are tried besides the default cap
MaxCap == 2

\* count: int = 20, and main()'s count=20
DefaultCount == 20

----------------------------------------------------------------------------
(* Generic helpers *)

Min(a, b) == IF a < b THEN a ELSE b

Max(a, b) == IF a > b THEN a ELSE b

InSeq(x, s) == \E i \in 1..Len(s) : s[i] = x

Take(s, n) == SubSeq(s, 1, Min(n, Len(s)))

----------------------------------------------------------------------------
(* Characters, as Python's re module classifies them *)

LowerCase ==
    <<"a", "b", "c", "d", "e", "f", "g", "h", "i", "j", "k", "l", "m", "n", "o",
      "p", "q", "r", "s", "t", "u", "v", "w", "x", "y", "z">>

UpperCase ==
    <<"A", "B", "C", "D", "E", "F", "G", "H", "I", "J", "K", "L", "M", "N", "O",
      "P", "Q", "R", "S", "T", "U", "V", "W", "X", "Y", "Z">>

Digits == {"0", "1", "2", "3", "4", "5", "6", "7", "8", "9"}

\* \s
Space == {" ", "\t", "\n"}

\* [a-zA-Z_]
IdentStart ==
    {LowerCase[i] : i \in 1..Len(LowerCase)} \cup
    {UpperCase[i] : i \in 1..Len(UpperCase)} \cup {"_"}

\* [a-zA-Z0-9_]
IdentChar == IdentStart \cup Digits

\* re.IGNORECASE compares letters without their case
ToLower(c) ==
    IF \E i \in 1..Len(UpperCase) : UpperCase[i] = c
    THEN LowerCase[CHOOSE i \in 1..Len(UpperCase) : UpperCase[i] = c]
    ELSE c

\* first position from p on whose character is not in S (Len(t)+1 at the end):
\* where a greedy S* started at p stops
SkipWhile(t, p, S) ==
    CHOOSE q \in p..(Len(t) + 1) :
        /\ q = Len(t) + 1 \/ t[q] \notin S
        /\ \A r \in p..(q - 1) : t[r] \in S

\* ^ under re.MULTILINE
AtLineStart(t, p) == p = 1 \/ t[p - 1] = "\n"

\* r'^\s*[a-zA-Z_][a-zA-Z0-9_]*\s*\(' with re.MULTILINE, tried at p:
\* the position after the match, 0 without one
MatchCommand(t, p) ==
    IF ~AtLineStart(t, p) THEN 0
    ELSE LET q1 == SkipWhile(t, p, Space)
         IN  IF q1 > Len(t) \/ t[q1] \notin IdentStart THEN 0
             ELSE LET q2 == SkipWhile(t, q1 + 1, IdentChar)
                      q3 == SkipWhile(t, q2, Space)
                  IN  IF q3 <= Len(t) /\ t[q3] = "(" THEN q3 + 1 ELSE 0

\* r'<kw>\s*\(' with re.IGNORECASE, tried at p
MatchKeyword(t, p, kw) ==
    IF p + Len(kw) - 1 > Len(t) THEN 0
    ELSE IF \E i \in 1..Len(kw) : ToLower(t[p + i - 1]) # kw[i] THEN 0
    ELSE LET q == SkipWhile(t, p + Len(kw), Space)
         IN  IF q <= Len(t) /\ t[q] = "(" THEN q + 1 ELSE 0

\* the patterns of analyze_file: the command pattern, or a keyword
CommandPattern == <<"^">>

Match(t, p, pat) ==
    IF pat = CommandPattern THEN MatchCommand(t, p) ELSE MatchKeyword(t, p, pat)

\* len(re.findall(pat, content)): non-overlapping matches, scanning left to right
RECURSIVE CountFrom(_, _, _)
CountFrom(t, p, pat) ==
    IF p > Len(t) THEN 0
    ELSE LET e == Match(t, p, pat)
         IN  IF e > 0 THEN 1 + CountFrom(t, e, pat) ELSE CountFrom(t, p + 1, pat)

FindAllCount(pat, t) == CountFrom(t, 1, pat)

\* len(re.findall(r'#', content))
CountChar(t, c) == Cardinality({i \in 1..Len(t) : t[i] = c})

\* content.split('\n')
RECURSIVE Split(_)
Split(t) ==
    IF \A i \in 1..Len(t) : t[i] # "\n" THEN <<t>>
    ELSE LET k == CHOOSE i \in 1..Len(t) :
                      t[i] = "\n" /\ \A j \in 1..(i - 1) : t[j] # "\n"
         IN  <<SubSeq(t, 1, k - 1)>> \o Split(SubSeq(t, k + 1, Len(t)))

\* l.strip()
Strip(l) ==
    LET first == SkipWhile(l, 1, Space)
    IN  IF first > Len(l) THEN <<>>
        ELSE LET last == CHOOSE q \in first..Len(l) :
                             l[q] \notin Space /\ \A r \in (q + 1)..Len(l) : l[r] \in Space
             IN  SubSeq(l, first, last)

\* what read_text yields for a file written line by line: the lines joined by '\n'
RECURSIVE Join(_)
Join(ls) ==
    IF ls = <<>> THEN <<>>
    ELSE IF Len(ls) = 1 THEN ls[1]
    ELSE ls[1] \o <<"\n">> \o Join(Tail(ls))

----------------------------------------------------------------------------
(* analyze_file *)

None == [none |-> TRUE]

KwFunction == <<"f", "u", "n", "c", "t", "i", "o", "n">>

KwMacro == <<"m", "a", "c", "r", "o">>

KwIf == <<"i", "f">>

KwForeach == <<"f", "o", "r", "e", "a", "c", "h">>

KwWhile == <<"w", "h", "i", "l", "e">>

\* metrics['complexity'] = ...
Complexity(m) ==
    m.commands + m.functions * 2 + m.macros * 2 + m.if_blocks + m.foreach_loops
        + m.while_loops

\* the metrics dict before 'complexity' is added ('filename' and
\* 'multiline_commands', which nothing reads but the dict itself, are left out)
Counts(path, content) ==
    LET lines == Split(content)
    IN  [path |-> path,
         lines |-> Len(lines),
         non_empty_lines |-> Cardinality({i \in 1..Len(lines) : Strip(lines[i]) # <<>>}),
         commands |-> FindAllCount(CommandPattern, content),
         comments |-> CountChar(content, "#"),
         functions |-> FindAllCount(KwFunction, content),
         macros |-> FindAllCount(KwMacro, content),
         if_blocks |-> FindAllCount(KwIf, content),
         foreach_loops |-> FindAllCount(KwForeach, content),
         while_loops |-> FindAllCount(KwWhile, content)]

\* analyze_file(filepath): None when read_text raises
analyze_file(f) ==
    IF ~f.readable THEN None
    ELSE LET m == Counts(f.path, Join(f.text))
         IN  [path |-> m.path, lines |-> m.lines, non_empty_lines |-> m.non_empty_lines,
              commands |-> m.commands, comments |-> m.comments,
              functions |-> m.functions, macros |-> m.macros,
              if_blocks |-> m.if_blocks, foreach_loops |-> m.foreach_loops,
              while_loops |-> m.while_loops, complexity |-> Complexity(m)]

----------------------------------------------------------------------------
(* find_representative_files *)

\* tmp_dir / "CMake" / "Tests", as one token
TestsRoot == <<"/tmp/cmake-tests/CMake/Tests">>

\* the absolute path of the file at rel under the Tests root
UnderTests(rel) == TestsRoot \o <<"/">> \o rel

\* cmake_root.glob("**/*.cmake")
MatchesCMake(path) == path[Len(path)] = ".cmake"

\* cmake_root.glob("**/CMakeLists.txt")
MatchesLists(path) ==
    path[Len(path)] = "CMakeLists.txt" /\ path[Len(path) - 1] = "/"

\* all_files: the matches of the first pattern, then those of the second
Glob(files) ==
    LET IsCMake(f) == MatchesCMake(f.path)
        IsLists(f) == MatchesLists(f.path)
    IN  SelectSeq(files, IsCMake) \o SelectSeq(files, IsLists)

\* if metrics and metrics['non_empty_lines'] > 5
KeepMetricsAtLeast(metrics) == metrics # None /\ metrics.non_empty_lines >= 5

KeepMetrics(metrics) == metrics # None /\ metrics.non_empty_lines > 5

\* the loop that fills analyzed
RECURSIVE AnalyzeAll(_)
AnalyzeAll(files) ==
    IF files = <<>> THEN <<>>
    ELSE LET metrics == analyze_file(Head(files))
         IN  (IF KeepMetrics(metrics) THEN <<metrics>> ELSE <<>>)
                 \o AnalyzeAll(Tail(files))

\* analyzed.sort(key=lambda x: x['complexity'], reverse=True): a stable sort
RECURSIVE SortByComplexity(_)
SortByComplexity(s) ==
    IF s = <<>> THEN <<>>
    ELSE LET rest == SortByComplexity(Take(s, Len(s) - 1))
             x == s[Len(s)]
             k == Cardinality({i \in 1..Len(rest) : rest[i].complexity >= x.complexity})
         IN  SubSeq(rest, 1, k) \o <<x>> \o SubSeq(rest, k + 1, Len(rest))

find_representative_files ==
    IF ~tests_dir THEN <<>>
    ELSE SortByComplexity(AnalyzeAll(Glob(tests_files)))

----------------------------------------------------------------------------
(* select_diverse_set *)

categories ==
    <<[name |-> "simple",
       criteria |-> [max_lines |-> 50, max_complexity |-> 20, count |-> 5]],
      [name |-> "medium",
       criteria |-> [min_lines |-> 50, max_lines |-> 200, min_complexity |-> 20,
                     max_complexity |-> 100, count |-> 8]],
      [name |-> "complex",
       criteria |-> [min_lines |-> 200, min_complexity |-> 100, count |-> 7]]>>

\* criteria.get(key, default)
Get(criteria, key, default) ==
    IF key \in DOMAIN criteria THEN criteria[key] ELSE default

\* the two range tests of the candidates filter
InCategory(f, criteria) ==
    /\ Get(criteria, "min_lines", 0) <= f.lines
    /\ f.lines <= Get(criteria, "max_lines", 999999)
    /\ Get(criteria, "min_complexity", 0) <= f.complexity
    /\ f.complexity <= Get(criteria, "max_complexity", 999999)

\* f not in selected
NotSelectedIgnored(f, sel) == TRUE

NotSelected(f, sel) == ~InSeq(f, sel)

\* candidates = [f for f in analyzed if ... and f not in selected]
Candidates(an, criteria, sel) ==
    LET Test(f) == InCategory(f, criteria) /\ NotSelected(f, sel)
    IN  SelectSeq(an, Test)

\* step = max(1, len(candidates) // target_count)
Step(n, target_count) == Max(1, n \div target_count)

\* the stop of range(0, min(len(candidates), target_count * step), step)
RangeStopUncapped(n, target_count, step) == n

RangeStop(n, target_count, step) == Min(n, target_count * step)

\* if len(selected) < count
CapAllowsInclusive(sel, cnt) == Len(sel) <= cnt

CapAllows(sel, cnt) == Len(sel) < cnt

\* for i in range(i, stop, step): if len(selected) < count: selected.append(...)
RECURSIVE TakeLoop(_, _, _, _, _, _)
TakeLoop(cands, i, stop, step, sel, cnt) ==
    IF i >= stop THEN sel
    ELSE TakeLoop(cands, i + step, stop, step,
                  IF CapAllows(sel, cnt) THEN Append(sel, cands[i + 1]) ELSE sel, cnt)

\* selected after the body of the category loop has run for criteria
AfterCategory(an, criteria, sel, cnt) ==
    LET cands == Candidates(an, criteria, sel)
        target_count == criteria.count
        step == Step(Len(cands), target_count)
    IN  TakeLoop(cands, 0, RangeStop(Len(cands), target_count, step), step, sel, cnt)

\* one iteration of: for cat_name, criteria in categories.items()
SelectCategory ==
    /\ pc = "select"
    /\ cat <= Len(categories)
    /\ LET criteria == categories[cat].criteria
           after == AfterCategory(analyzed, criteria, selected, count)
       IN  /\ candidates' = Candidates(analyzed, criteria, selected)
           /\ selected' = after
           /\ taken' = SubSeq(after, Len(selected) + 1, Len(after))
    /\ cat' = cat + 1
    /\ UNCHANGED <<fs_vars, pc, run, exit_code, raised, steps, written,
                   clone_completed, analyzed, count, result>>

\* return selected[:count]
ReturnSelected ==
    /\ pc = "select"
    /\ cat > Len(categories)
    /\ result' = Take(selected, count)
    /\ pc' = "selected"
    /\ UNCHANGED <<fs_vars, run, exit_code, raised, steps, written, clone_completed,
                   analyzed, count, selected, cat, candidates, taken>>

----------------------------------------------------------------------------
(* copy_selected_files *)

\* src.relative_to(self.tmp_dir / "CMake" / "Tests")
relative_to(path) == SubSeq(path, Len(TestsRoot) + 2, Len(path))

\* str.replace(old, new), for a one-character old
Replace(s, old, new) == [i \in 1..Len(s) |-> IF s[i] = old THEN new ELSE s[i]]

\* dest_name = str(rel_path).replace('/', '_').replace('\\', '_')
dest_name(path) == Replace(Replace(relative_to(path), "/", "_"), "\\", "_")

\* dest.write_bytes(src.read_bytes()): creates dest, or replaces what it held
WriteFile(dir, name, src) ==
    {e \in dir : e.name # name} \cup {[name |-> name, src |-> src]}

\* the copy loop, over the first k items
RECURSIVE CopyItems(_, _, _)
CopyItems(dir, items, k) ==
    IF k = 0 THEN dir
    ELSE WriteFile(CopyItems(dir, items, k - 1), dest_name(items[k].path), items[k].path)

DestNames(items, k) == {dest_name(items[i].path) : i \in 1..k}

ReadmeName == <<"README.md">>

----------------------------------------------------------------------------
(* main *)

\* a step of main() is entered
Enter(step) == steps' = Append(steps, step)

\* an uncaught exception ends the interpreter with status 1
Uncaught(what) ==
    /\ raised' = what
    /\ exit_code' = 1
    /\ pc' = "exit"

\* clone_cmake_repo: both subprocesses succeed
CloneOk ==
    /\ pc = "start"
    /\ ~cmake_dir
    /\ cmake_dir' = TRUE
    /\ tests_dir' = TRUE
    /\ clone_completed' = TRUE
    /\ Enter("clone")
    /\ pc' = "find"
    /\ UNCHANGED <<tests_files, out_dir, readme, run, exit_code, raised, written,
                   analyzed, count, select_vars>>

\* clone_cmake_repo: git clone exits non-zero (git removes what it created);
\* check=True raises CalledProcessError
CloneFailsInGitClone ==
    /\ pc = "start"
    /\ ~cmake_dir
    /\ Enter("clone")
    /\ Uncaught("CalledProcessError")
    /\ UNCHANGED <<fs_vars, run, written, clone_completed, analyzed, count,
                   select_vars>>

\* clone_cmake_repo: git clone succeeds, git sparse-checkout exits non-zero
CloneFailsInSparseCheckout ==
    /\ pc = "start"
    /\ ~cmake_dir
    /\ cmake_dir' = TRUE
    /\ Enter("clone")
    /\ Uncaught("CalledProcessError")
    /\ UNCHANGED <<tests_dir, tests_files, out_dir, readme, run, written,
                   clone_completed, analyzed, count, select_vars>>

\* clone_cmake_repo: the else branch, "Repository already exists"
CloneSkipped ==
    /\ pc = "start"
    /\ cmake_dir
    /\ Enter("clone_skipped")
    /\ pc' = "find"
    /\ UNCHANGED <<fs_vars, run, exit_code, raised, written, clone_completed,
                   analyzed, count, select_vars>>

\* analyzed = selector.find_representative_files()
FindFiles ==
    /\ pc = "find"
    /\ analyzed' = find_representative_files
    /\ Enter("find")
    /\ pc' = "check"
    /\ UNCHANGED <<fs_vars, run, exit_code, raised, written, clone_completed,
                   count, select_vars>>

\* if not analyzed: sys.exit(1)
ExitNoFilesFallsThrough ==
    /\ pc = "check"
    /\ analyzed = <<>>
    /\ count' = DefaultCount
    /\ selected' = <<>>
    /\ cat' = 1
    /\ Enter("select")
    /\ pc' = "select"
    /\ UNCHANGED <<fs_vars, run, exit_code, raised, written, clone_completed,
                   analyzed, candidates, taken, result>>

ExitNoFiles ==
    /\ pc = "check"
    /\ analyzed = <<>>
    /\ exit_code' = 1
    /\ pc' = "exit"
    /\ UNCHANGED <<fs_vars, run, raised, steps, written, clone_completed, analyzed,
                   count, select_vars>>

\* selected = selector.select_diverse_set(analyzed, count=20): the call
BeginSelect ==
    /\ pc = "check"
    /\ analyzed # <<>>
    /\ count' = DefaultCount
    /\ selected' = <<>>
    /\ cat' = 1
    /\ Enter("select")
    /\ pc' = "select"
    /\ UNCHANGED <<fs_vars, run, exit_code, raised, written, clone_completed,
                   analyzed, candidates, taken, result>>

\* selector.copy_selected_files(selected), then main() returns
CopyOk ==
    /\ pc = "selected"
    /\ out_dir' = CopyItems(out_dir, result, Len(result))
    /\ readme' = TRUE
    /\ written' = DestNames(result, Len(result)) \cup {ReadmeName}
    /\ Enter("copy")
    /\ exit_code' = 0
    /\ pc' = "exit"
    /\ UNCHANGED <<cmake_dir, tests_dir, tests_files, run, raised, clone_completed,
                   analyzed, count, select_vars>>

\* copy_selected_files raises after k files are copied (k = len(selected): while
\* the README is written)
CopyFails ==
    /\ pc = "selected"
    /\ \E k \in 0..Len(result) :
           /\ out_dir' = CopyItems(out_dir, result, k)
           /\ written' = DestNames(result, k)
    /\ Enter("copy")
    /\ Uncaught("OSError")
    /\ UNCHANGED <<cmake_dir, tests_dir, tests_files, readme, run, clone_completed,
                   analyzed, count, select_vars>>

\* the script is started again
NewRun ==
    /\ pc = "exit"
    /\ run < MaxRuns
    /\ run' = run + 1
    /\ pc' = "start"
    /\ exit_code' = -1
    /\ raised' = "none"
    /\ steps' = <<>>
    /\ written' = {}
    /\ analyzed' = <<>>
    /\ selected' = <<>>
    /\ cat' = 1
    /\ candidates' = <<>>
    /\ taken' = <<>>
    /\ result' = <<>>
    /\ UNCHANGED <<fs_vars, clone_completed, count>>

----------------------------------------------------------------------------
(* The upstream Tests tree *)

LSet == <<"s", "e", "t", "(", "a", ")">>

LFunction == <<"f", "u", "n", "c", "t", "i", "o", "n", "(", "f", ")">>

LEndFunction == <<"e", "n", "d", "f", "u", "n", "c", "t", "i", "o", "n", "(", ")">>

LIf == <<"I", "F", " ", "(", "a", ")">>

LEndIf == <<"e", "n", "d", "i", "f", "(", ")">>

LComment == <<"#", " ", "i", "f", " ", "a">>

LBlank == <<" ", "\t">>

\* file contents, each a list of lines
Contents ==
    { \* six non-empty lines
      <<LComment, LSet, LSet, LSet, LSet, LSet>>,
      \* five non-empty lines among seven, the last one empty
      <<LSet, LBlank, LSet, LSet, LSet, LSet, <<>>>>,
      \* three plain commands, one function definition, two if-blocks
      <<LFunction, LSet, LSet, LSet, LEndFunction, LIf, LEndIf, LIf, LEndIf>> }

\* paths below the Tests root, in directory order
PathPool ==
    << <<"a", "/", "b", ".cmake">>,
       <<"a", "_", "b", ".cmake">>,
       <<"a", "/", "b", ".c">>,
       <<"c", "\\", "d", ".cmake">>,
       <<"a", "/", "CMakeLists.txt">> >>

FileStates ==
    {[text |-> c, readable |-> TRUE] : c \in Contents}
        \cup {[text |-> <<>>, readable |-> FALSE]}

\* the elements of a set of numbers, ascending
RECURSIVE Ascending(_)
Ascending(S) ==
    IF S = {} THEN <<>>
    ELSE LET m == CHOOSE x \in S : \A y \in S : x <= y
         IN  <<m>> \o Ascending(S \ {m})

\* the trees of at most MaxFiles files
FileSystems ==
    UNION {
        { LET idx == Ascending(I)
          IN  [k \in 1..Len(idx) |->
                  [path |-> UnderTests(PathPool[idx[k]]),
                   text |-> st[idx[k]].text,
                   readable |-> st[idx[k]].readable]] : st \in [I -> FileStates] }
        : I \in {J \in SUBSET (1..Len(PathPool)) : Cardinality(J) <= MaxFiles} }

Init ==
    /\ cmake_dir = FALSE
    /\ tests_dir = FALSE
    /\ tests_files \in FileSystems
    /\ out_dir = {}
    /\ readme = FALSE
    /\ pc = "start"
    /\ run = 1
    /\ exit_code = -1
    /\ raised = "none"
    /\ steps = <<>>
    /\ written = {}
    /\ clone_completed = FALSE
    /\ analyzed = <<>>
    /\ count = DefaultCount
    /\ selected = <<>>
    /\ cat = 1
    /\ candidates = <<>>
    /\ taken = <<>>
    /\ result = <<>>

Next ==
    \/ CloneOk
    \/ CloneFailsInGitClone
    \/ CloneFailsInSparseCheckout
    \/ CloneSkipped
    \/ FindFiles
    \/ ExitNoFiles
    \/ BeginSelect
    \/ SelectCategory
    \/ ReturnSelected
    \/ CopyOk
    \/ CopyFails
    \/ NewRun

Spec == Init /\ [][Next]_vars

----------------------------------------------------------------------------
(* select_diverse_set on its own: analyzed lists as find_representative_files *)
(* returns them (descending complexity, distinct paths), and a cap            *)

\* n analyzed files of one class of (lines, complexity)
ClassFiles(cls, n, lines, complexity) ==
    [k \in 1..n |-> [path |-> <<cls, k>>, lines |-> lines, complexity |-> complexity]]

AnalyzedList(nComplex, nMediumComplex, nMedium, nSimpleMedium, nSimple, nOdd) ==
    ClassFiles("complex", nComplex, 300, 150)
        \o ClassFiles("medium_complex", nMediumComplex, 200, 100)
        \o ClassFiles("medium", nMedium, 100, 50)
        \o ClassFiles("simple_medium", nSimpleMedium, 50, 20)
        \o ClassFiles("simple", nSimple, 10, 5)
        \o ClassFiles("odd", nOdd, 300, 5)

\* one class holds up to MaxBulk files, every other up to MaxOther, up to
\* MaxBoundary files lie on each bound two categories share, and at most one file
\* fits no category
AnalyzedInputs ==
    {AnalyzedList(c, mc, m, sm, s, odd) :
        c \in 0..MaxBulk, mc \in 0..MaxBoundary, m \in 0..MaxOther,
        sm \in 0..MaxBoundary, s \in 0..MaxOther, odd \in {0, 1}}
    \cup
    {AnalyzedList(c, mc, m, sm, s, odd) :
        c \in 0..MaxOther, mc \in 0..MaxBoundary, m \in 0..MaxBulk,
        sm \in 0..MaxBoundary, s \in 0..MaxOther, odd \in {0, 1}}
    \cup
    {AnalyzedList(c, mc, m, sm, s, odd) :
        c \in 0..MaxOther, mc \in 0..MaxBoundary, m \in 0..MaxOther,
        sm \in 0..MaxBoundary, s \in 0..MaxBulk, odd \in {0, 1}}

Caps == (0..MaxCap) \cup {DefaultCount}

InitSelect ==
    /\ cmake_dir = TRUE
    /\ tests_dir = TRUE
    /\ tests_files = <<>>
    /\ out_dir = {}
    /\ readme = FALSE
    /\ pc = "select"
    /\ run = 1
    /\ exit_code = -1
    /\ raised = "none"
    /\ steps = <<"select">>
    /\ written = {}
    /\ clone_completed = TRUE
    /\ analyzed \in AnalyzedInputs
    /\ count \in Caps
    /\ selected = <<>>
    /\ cat = 1
    /\ candidates = <<>>
    /\ taken = <<>>
    /\ result = <<>>

NextSelect ==
    \/ SelectCategory
    \/ ReturnSelected

SpecSelect == InitSelect /\ [][NextSelect]_vars

----------------------------------------------------------------------------
(* Properties of select_diverse_set, checked under SpecSelect *)

NoDuplicates(s) == \A i, j \in 1..Len(s) : i # j => s[i] # s[j]

\* the categories whose bounds a file's line count and complexity satisfy
CategoriesOf(f) == {c \in 1..Len(categories) : InCategory(f, categories[c].criteria)}

\* C1: the list select_diverse_set builds and the list it returns never hold more
\* than count files, whatever the analyzed list holds.
C1_AtMostCount ==
    /\ Len(selected) <= count
    /\ pc = "selected" => Len(result) <= count

\* C1 witness: the cap is reached and keeps the last category, which has
\* candidates, from adding any
C1_Witness ==
    /\ pc = "selected"
    /\ count > 0
    /\ Len(result) = count
    /\ candidates # <<>>
    /\ taken = <<>>

\* C2: the bounds of at most one category hold for every analyzed file.
C2_BucketsExclusive ==
    \A i \in 1..Len(analyzed) : Cardinality(CategoriesOf(analyzed[i])) <= 1

\* C3: when the cap leaves room for min(n, t) more files, a category with n
\* candidates and target t takes exactly the candidates at the 0-based indices
\* 0, s, 2s, ... with s = max(1, n // t), min(n, t) of them.
C3_StrideSample ==
    cat > 1 =>
        LET n == Len(candidates)
            t == categories[cat - 1].criteria.count
            s == IF n \div t >= 1 THEN n \div t ELSE 1
            m == IF n < t THEN n ELSE t
        IN  Len(selected) - Len(taken) + m <= count =>
                /\ Len(taken) = m
                /\ \A k \in 1..m : taken[k] = candidates[(k - 1) * s + 1]

\* C3 witness: the complex category with 50 candidates takes those at the
\* indices 0, 7, ..., 42
C3_Witness ==
    /\ cat = 4
    /\ Len(candidates) = 50
    /\ Len(taken) = 7
    /\ \A k \in 1..7 : taken[k] = candidates[7 * (k - 1) + 1]

\* C9: no file is selected twice (the analyzed files have distinct paths), also
\* when a file lies on a bound two categories share.
C9_NoFileTwice ==
    /\ NoDuplicates(selected)
    /\ NoDuplicates(result)

\* C9 witness: the medium category has run, after the simple category took a file
\* that the medium bounds admit too
C9_Witness ==
    /\ cat = 3
    /\ NoDuplicates(analyzed)
    /\ \E i \in 1..(Len(selected) - Len(taken)) : CategoriesOf(selected[i]) = {1, 2}

----------------------------------------------------------------------------
(* Properties of a run of main(), checked under Spec *)

\* the file of the Tests tree that a metrics entry was computed from
SourceOf(m) == CHOOSE i \in 1..Len(tests_files) : tests_files[i].path = m.path

\* the lines of a file that hold a character other than white space
NonBlankLines(text) ==
    Cardinality({i \in 1..Len(text) : \E j \in 1..Len(text[i]) : text[i][j] \notin Space})

\* a line that invokes the command kw
Invokes(line, kw) == MatchKeyword(line, 1, kw) > 0

BlockKeywords ==
    {KwFunction, KwMacro, KwIf, KwForeach, KwWhile,
     <<"e", "n", "d">> \o KwFunction, <<"e", "n", "d">> \o KwMacro,
     <<"e", "n", "d">> \o KwIf, <<"e", "n", "d">> \o KwForeach,
     <<"e", "n", "d">> \o KwWhile, <<"e", "l", "s", "e">>,
     <<"e", "l", "s", "e">> \o KwIf}

\* a command invocation that opens or closes no block
PlainCommand(line) ==
    MatchCommand(line, 1) > 0 /\ \A kw \in BlockKeywords : ~Invokes(line, kw)

NumLines(text, P(_)) == Cardinality({i \in 1..Len(text) : P(text[i])})

\* three plain commands, one function definition, no macro, two if-blocks, no loop
IsExampleFile(text) ==
    LET IsFunction(l) == Invokes(l, KwFunction)
        IsMacro(l) == Invokes(l, KwMacro)
        IsIf(l) == Invokes(l, KwIf)
        IsLoop(l) == Invokes(l, KwForeach) \/ Invokes(l, KwWhile)
    IN  /\ NumLines(text, PlainCommand) = 3
        /\ NumLines(text, IsFunction) = 1
        /\ NumLines(text, IsMacro) = 0
        /\ NumLines(text, IsIf) = 2
        /\ NumLines(text, IsLoop) = 0

\* C4: the complexity of an analyzed file is the weighted sum of its counts, and
\* it is 7 for a file with three plain commands, one function definition, no
\* macro, two if-blocks and no loop.
C4_WeightedSum ==
    \A i \in 1..Len(analyzed) :
        LET m == analyzed[i]
        IN  /\ m.complexity = m.commands + 2 * m.functions + 2 * m.macros
                                  + m.if_blocks + m.foreach_loops + m.while_loops
            /\ IsExampleFile(tests_files[SourceOf(m)].text) => m.complexity = 7

\* C5: two different selected files never get the same destination name, so a
\* successful copy into the empty output directory leaves one file per selected
\* file.
C5_DistinctNames ==
    /\ pc = "selected" =>
           \A i, j \in 1..Len(result) :
               i # j => dest_name(result[i].path) # dest_name(result[j].path)
    /\ (pc = "exit" /\ run = 1 /\ exit_code = 0) => Cardinality(out_dir) = Len(result)

\* the matched, readable files with more than 5 non-blank lines
Analyzable ==
    {i \in 1..Len(tests_files) :
        /\ MatchesCMake(tests_files[i].path) \/ MatchesLists(tests_files[i].path)
        /\ tests_files[i].readable
        /\ NonBlankLines(tests_files[i].text) > 5}

\* C6: once the existing Tests tree is scanned, the analyzed list holds one entry
\* for each matched readable file with more than 5 non-blank lines and no other;
\* an unreadable or small file is left out and the scan goes on.
C6_AnalyzedExactly ==
    (tests_dir /\ InSeq("find", steps)) =>
        /\ {analyzed[i].path : i \in 1..Len(analyzed)}
               = {tests_files[i].path : i \in Analyzable}
        /\ Len(analyzed) = Cardinality(Analyzable)

\* C6 witness: the first file scanned is unreadable, a later one is analyzed
C6_Witness ==
    /\ tests_dir
    /\ InSeq("find", steps)
    /\ Len(tests_files) >= 2
    /\ MatchesCMake(tests_files[1].path)
    /\ ~tests_files[1].readable
    /\ Analyzable # {}
    /\ Len(analyzed) = Cardinality(Analyzable)

\* what C7 says of a run that found nothing to analyze, and of one that did
NoFilesRunWritesNothing ==
    (pc = "exit" /\ raised = "none" /\ analyzed = <<>>) =>
        /\ ~InSeq("select", steps)
        /\ ~InSeq("copy", steps)
        /\ written = {}

FilesRunCompletes ==
    (pc = "exit" /\ raised = "none" /\ analyzed # <<>>) =>
        /\ exit_code = 0
        /\ InSeq("select", steps)
        /\ InSeq("copy", steps)

\* C7, as stated: a run exits with code 1 exactly when the clone step did not fail
\* and the analyzed list is empty, then without selecting, copying or writing; a
\* run that analyzed files and met no I/O error selects, copies and exits with 0.
C7_ExitOneExactlyWithoutFiles ==
    /\ pc = "exit" =>
           (exit_code = 1 <=> (raised # "CalledProcessError" /\ analyzed = <<>>))
    /\ NoFilesRunWritesNothing
    /\ FilesRunCompletes

\* C7, amended: a run exits with code 1 exactly when an uncaught error ended it
\* (a failed clone subprocess, an I/O error of the copy) or, without one, the
\* analyzed list is empty; the rest as stated.
C7_ExitOneOnErrorOrWithoutFiles ==
    /\ pc = "exit" => (exit_code = 1 <=> (raised # "none" \/ analyzed = <<>>))
    /\ NoFilesRunWritesNothing
    /\ FilesRunCompletes

\* C7 witness: the clone succeeded, the scan found nothing to analyze, the run
\* ended with exit code 1
C7_Witness ==
    /\ pc = "exit"
    /\ exit_code = 1
    /\ raised = "none"
    /\ steps = <<"clone", "find">>
    /\ tests_files # <<>>

\* C10: clone_cmake_repo skips the clone only when an earlier run completed both
\* git clone and git sparse-checkout.
C10_SkipOnlyAfterCompleteClone ==
    (steps # <<>> /\ steps[1] = "clone_skipped") => clone_completed

====
